---- MODULE Spec2Model ----
(***************************************************************************)
(* The NavigationScreen example component of react-native-navigation-sdk.  *)
(* Two variants of the screen are in the repository:                       *)
(*   "example"  : src/example/src/NavigationScreen.tsx                     *)
(*   "part_000" : src/unnamed/part_000                                     *)
(* The model is the screen's local state (React state, the registered      *)
(* callback table, the blur listener, the async handlers in flight) and    *)
(* one action per handler step.  A handler runs from its entry, or from    *)
(* the await it is suspended at, to its next await on an SDK promise.      *)
(***************************************************************************)
EXTENDS Integers, Sequences, FiniteSets, Bags, TLC

VARIABLES
  screen,                   \* which variant of the screen this instance is
  mounted,                  \* the component is mounted
  focused,                  \* the navigator has this screen in focus
  arePermissionsApproved,   \* usePermissions()
  overlayType,              \* useState<OverlayType>
  mapViewController,        \* useState<MapViewController | null>
  navigationViewController, \* useState<NavigationViewController | null>
  navigationInitialized,    \* useState(false)
  displayMap,               \* useState<boolean>(false)
  margin,                   \* useState<number | null>(null)
  registered,               \* callback tables registered through addListeners
  blurListeners,            \* 'blur' listeners subscribed by the focus effect
  tasks,                    \* async handlers suspended at an await (a bag)
  step                      \* the last handler step: what ran and what it did

vars == <<screen, mounted, focused, arePermissionsApproved, overlayType,
          mapViewController, navigationViewController, navigationInitialized,
          displayMap, margin, registered, blurListeners, tasks, step>>

(* ------------------------------ bounds -------------------------------- *)

\* distinct controller handles the native view can hand out
MaxHandle == 1
\* event handler invocations suspended at an await at the same time
MaxTasks == 1
\* blur cleanups (cleanUpNavigation) suspended at an await at the same time
MaxCleanUps == 1
\* error codes the SDK draws onNavigationInitError's argument from
MaxErrorCode == 2

(* ----------------------------- constants ------------------------------ *)

NULL == -1
marginAmount == 50
NumWayPointsExample == 13
NumWayPointsPart000 == 3

Example == "example"
Part000 == "part_000"
Screens == {Example, Part000}

Handles == 1..MaxHandle

OverlayType == {"None", "NavControls", "MapControls"}

\* RouteStatus: the six values the switch names and three it does not
NamedStatus == {"OK", "ROUTE_CANCELED", "NO_ROUTE_FOUND", "NETWORK_ERROR",
                "LOCATION_DISABLED", "LOCATION_UNKNOWN"}
RouteStatus == NamedStatus \cup {"QUOTA_CHECK_FAILED", "WAYPOINT_ERROR", "UNKNOWN"}

wayPoints(scr) ==
  IF scr = Example THEN NumWayPointsExample ELSE NumWayPointsPart000

(* ------------------------ what a step produces ------------------------ *)

\* a call on an SDK controller object
Sdk(f, a) == [k |-> "sdk", f |-> f, a |-> a]
\* showSnackbar(text)
showSnackbar(text) == [k |-> "snack", f |-> text, a |-> 0]
\* entry into a local function (a trace marker, no effect)
Enter(f) == [k |-> "enter", f |-> f, a |-> 0]

\* op: the handler; at: "entry" or the SDK call whose promise settled;
\* res: "-" at entry, else "ok" | "rejected"; out: what the step emitted
Step(op, at, res, out) == [op |-> op, at |-> at, res |-> res, out |-> out]

Count(s, x) == Cardinality({i \in 1..Len(s) : s[i] = x})
Has(s, x) == \E i \in 1..Len(s) : s[i] = x
HasSdk(s) == \E i \in 1..Len(s) : s[i].k = "sdk"
Snacks(s) == SelectSeq(s, LAMBDA e : e.k = "snack")


(* ---------------------------- rendering ------------------------------- *)

\* return arePermissionsApproved && displayMap ? <View ...> : <React.Fragment />
Rendered == mounted /\ arePermissionsApproved /\ displayMap

\* {navigationViewController != null && navigationController != null &&
\*  navigationInitialized && (<OverlayModal ...>)}
NavControlsRendered ==
  Rendered /\ navigationViewController # NULL /\ navigationInitialized

\* visible={overlayType === OverlayType.NavControls}
NavControlsVisible == NavControlsRendered /\ overlayType = "NavControls"

\* {mapViewController != null && (<OverlayModal visible={overlayType === MapControls}>)}
MapControlsVisible ==
  Rendered /\ mapViewController # NULL /\ overlayType = "MapControls"

\* <Button title="Navigation" disabled={!navigationInitialized} />
NavigationButtonEnabled == Rendered /\ navigationInitialized

\* <Switch value={!!margin} />
Truthy(m) == m # NULL /\ m # 0
SwitchValue == Truthy(margin)

(* ------------------- hooks: closures, tables, effects ------------------ *)

\* The navigationCallbacks table.  useMemo rebuilds it when one of its
\* callbacks changes identity; the callbacks' useCallback dependencies are
\* mapViewController (both variants) and navigationViewController
\* (part_000's onNavigationReady), so the table is identified by them.
navigationCallbacks(scr, map, nav) ==
  [map |-> map, nav |-> IF scr = Part000 THEN nav ELSE NULL]

addListeners(reg, table) == reg \cup {table}
removeListeners(reg, table) == reg \ {table}

\* faulty variant: the effect returns no cleanup, so a rebuilt table is
\* registered beside the previous one
CallbacksEffect_NoCleanup(reg, old, new) ==
  IF old = new THEN reg ELSE addListeners(reg, new)

\* useEffect(() => { addListeners(t); return () => removeListeners(t) }, [t]):
\* on a change of the table the previous run's cleanup comes first
CallbacksEffect(reg, old, new) ==
  IF old = new THEN reg ELSE addListeners(removeListeners(reg, old), new)

\* the unsubscribe function navigation.addListener('blur', f) returned to the
\* latest run of the focus effect
Unsubscribe(ls) == IF ls = <<>> THEN ls ELSE SubSeq(ls, 1, Len(ls) - 1)

\* faulty variant: the focus effect does not return the unsubscribe
\* function, so a re-run leaves the previous listener subscribed
FocusEffect_KeepsListener(ls, isFocused, oldMap, newMap) ==
  IF isFocused /\ oldMap # newMap THEN Append(ls, newMap) ELSE ls

\* useFocusEffect(useCallback(..., [cleanUpNavigation, navigation])): while
\* focused, a new cleanUpNavigation (its mapViewController changed) runs the
\* cleanup of the previous run and subscribes a listener closing over the new
\* one.  A listener is recorded as the mapViewController it closes over.
FocusEffect(ls, isFocused, oldMap, newMap) ==
  IF isFocused /\ oldMap # newMap THEN Append(Unsubscribe(ls), newMap) ELSE ls

(* --------------------------- async handlers ---------------------------- *)

\* A suspended handler: the function, the SDK call it awaits (pc), the
\* waypoint index of createWayPoints' loop (i), whether the handles its
\* closure holds are set (map, nav: the closure's mapViewController /
\* navigationViewController is non-null), and whether the promise of an
\* un-awaited setDestinations is still pending (flt).
Task(fn, pc, i, map, nav, flt) ==
  [fn |-> fn, pc |-> pc, i |-> i, map |-> map, nav |-> nav, flt |-> flt]
NoTask == Task("none", "done", 0, FALSE, FALSE, FALSE)

\* the result of running a handler to its next await
Ran(out, t) == [out |-> out, t |-> t]

Spawn(ts, t) == IF t = NoTask THEN ts ELSE ts (+) SetToBag({t})
Settle(ts, old, new) == Spawn(ts (-) SetToBag({old}), new)

RECURSIVE SpawnAll(_, _)
SpawnAll(ts, new) ==
  IF new = <<>> THEN ts ELSE SpawnAll(Spawn(ts, Head(new)), Tail(new))

Suspended(ts) == BagToSet(ts)
CleanUpsOf(ts) ==
  LET c(pc) == LET t == Task("cleanUpNavigation", pc, 0, FALSE, FALSE, FALSE)
               IN IF BagIn(t, ts) THEN CopiesIn(t, ts) ELSE 0
  IN c("clearDestinations") + c("cleanup")
HandlersOf(ts) == BagCardinality(ts) - CleanUpsOf(ts)

Results == {"ok", "rejected"}

\* cleanUpNavigation, from its entry to `await clearDestinations()`
\* (map: the closure's mapViewController is set)
cleanUpNavigation(map) ==
  Ran(<<Enter("cleanUpNavigation")>>
        \o (IF map THEN <<Sdk("clearMapView", 0)>> ELSE <<>>)
        \o <<Sdk("clearDestinations", 0)>>,
      Task("cleanUpNavigation", "clearDestinations", 0, FALSE, FALSE, FALSE))

\* faulty variant: the rejection of clearDestinations() is swallowed and
\* cleanup() is called all the same
cleanUpNavigationResume_IgnoresRejection(t, res) ==
  IF t.pc = "clearDestinations"
    THEN Ran(<<Sdk("cleanup", 0)>>, [t EXCEPT !.pc = "cleanup"])
    ELSE Ran(<<>>, NoTask)

\* cleanUpNavigation resumed: a rejected await ends the function
cleanUpNavigationResume(t, res) ==
  IF t.pc = "clearDestinations" /\ res = "ok"
    THEN Ran(<<Sdk("cleanup", 0)>>, [t EXCEPT !.pc = "cleanup"])
    ELSE Ran(<<>>, NoTask)

\* moveCameraToStartingSpot: the call it makes, if any (map: the closure's
\* mapViewController is set)
moveCameraToStartingSpot(map) ==
  IF map THEN <<Sdk("moveCamera", 0)>> ELSE <<>>

\* the try/catch around moveCamera (the example screen only)
MoveCameraCaught(scr) == scr = Example

\* the try/catch around `await setDestinations` (the example screen only;
\* part_000 calls setDestinations without awaiting it)
SetDestinationsAwaited(scr) == scr = Example

\* onNavigationReady from phase ph to its next await.  Phases: "camera",
\* "dest", "marker" (createWayPoints, at waypoint i), "overview".
\* map, nav: the closure's mapViewController / navigationViewController is set.
RECURSIVE ReadyRun(_, _, _, _, _, _, _)
ReadyRun(scr, ph, i, map, nav, flt, out) ==
  CASE ph = "camera" ->
         IF map
           THEN Ran(out \o moveCameraToStartingSpot(map),
                    Task("onNavigationReady", "moveCamera", 0, map, nav, flt))
           ELSE ReadyRun(scr, "dest", 0, map, nav, flt, out)
    [] ph = "dest" ->
         IF SetDestinationsAwaited(scr)
           THEN Ran(Append(out, Sdk("setDestinations", wayPoints(scr))),
                    Task("onNavigationReady", "setDestinations", 0, map, nav, flt))
           ELSE ReadyRun(scr, "marker", 1, map, nav, TRUE,
                         Append(out, Sdk("setDestinations", wayPoints(scr))))
    [] ph = "marker" ->
         IF i > wayPoints(scr)
           THEN ReadyRun(scr, "overview", 0, map, nav, flt, out)
           ELSE IF map
             THEN Ran(Append(out, Sdk("addMarker", i)),
                      Task("onNavigationReady", "addMarker", i, map, nav, flt))
             ELSE ReadyRun(scr, "marker", i + 1, map, nav, flt, out)
    [] OTHER ->
         IF scr = Part000 /\ nav
           THEN Ran(Append(out, Sdk("showRouteOverview", 0)),
                    Task("onNavigationReady", "showRouteOverview", 0, map, nav, flt))
           ELSE Ran(out, IF flt
                           THEN Task("onNavigationReady", "done", 0, map, nav, flt)
                           ELSE NoTask)

\* a rejection nothing catches ends the handler; the un-awaited promise of
\* setDestinations (part_000) stays pending
ReadyAbort(t) ==
  Ran(<<>>, IF t.flt THEN [t EXCEPT !.pc = "done", !.i = 0] ELSE NoTask)

\* faulty variant: createWayPoints skips the waypoint after each marker
onNavigationReadyResume_SkipsWayPoint(scr, t, res) ==
  CASE t.pc = "moveCamera" ->
         IF res = "ok"
           THEN ReadyRun(scr, "dest", 0, t.map, t.nav, t.flt, <<>>)
           ELSE IF MoveCameraCaught(scr)
             THEN ReadyRun(scr, "dest", 0, t.map, t.nav, t.flt,
                           <<showSnackbar("Error moving camera")>>)
             ELSE ReadyAbort(t)
    [] t.pc = "setDestinations" ->
         ReadyRun(scr, "marker", 1, t.map, t.nav, t.flt,
                  IF res = "ok" THEN <<>>
                  ELSE <<showSnackbar("Error setting destinations")>>)
    [] t.pc = "addMarker" ->
         IF res = "ok"
           THEN ReadyRun(scr, "marker", t.i + 2, t.map, t.nav, t.flt, <<>>)
           ELSE ReadyAbort(t)
    [] OTHER -> ReadyAbort(t)

\* onNavigationReady resumed at the await it is suspended at
onNavigationReadyResume(scr, t, res) ==
  CASE t.pc = "moveCamera" ->
         IF res = "ok"
           THEN ReadyRun(scr, "dest", 0, t.map, t.nav, t.flt, <<>>)
           ELSE IF MoveCameraCaught(scr)
             THEN ReadyRun(scr, "dest", 0, t.map, t.nav, t.flt,
                           <<showSnackbar("Error moving camera")>>)
             ELSE ReadyAbort(t)
    [] t.pc = "setDestinations" ->
         ReadyRun(scr, "marker", 1, t.map, t.nav, t.flt,
                  IF res = "ok" THEN <<>>
                  ELSE <<showSnackbar("Error setting destinations")>>)
    [] t.pc = "addMarker" ->
         IF res = "ok"
           THEN ReadyRun(scr, "marker", t.i + 1, t.map, t.nav, t.flt, <<>>)
           ELSE ReadyAbort(t)
    [] OTHER -> ReadyAbort(t)

(* ------------------------------- state --------------------------------- *)

Init ==
  /\ screen \in Screens
  /\ mounted = TRUE
  /\ focused = FALSE
  /\ arePermissionsApproved = FALSE
  /\ overlayType = "None"
  /\ mapViewController = NULL
  /\ navigationViewController = NULL
  /\ navigationInitialized = FALSE
  /\ displayMap = FALSE
  /\ margin = NULL
  /\ registered = {navigationCallbacks(screen, NULL, NULL)}
  /\ blurListeners = <<>>
  /\ tasks = EmptyBag
  /\ step = Step("mount", "entry", "-", <<>>)

\* a state setter called after the component unmounted changes nothing
SetState(old, new) == IF mounted THEN new ELSE old

\* a render that changed the controller handles, with its effects
Controllers(map, nav) ==
  /\ mapViewController' = map
  /\ navigationViewController' = nav
  /\ registered' =
       CallbacksEffect(registered,
         navigationCallbacks(screen, mapViewController, navigationViewController),
         navigationCallbacks(screen, map, nav))
  /\ blurListeners' = FocusEffect(blurListeners, focused, mapViewController, map)

SameControllers ==
  UNCHANGED <<mapViewController, navigationViewController, registered, blurListeners>>

(* ----------------------- lifecycle and the views ----------------------- *)

\* usePermissions() reports the permissions as approved
PermissionsApproved ==
  /\ mounted /\ ~arePermissionsApproved
  /\ arePermissionsApproved' = TRUE
  /\ step' = Step("usePermissions", "entry", "-", <<>>)
  /\ SameControllers
  /\ UNCHANGED <<screen, mounted, focused, overlayType, navigationInitialized,
                 displayMap, margin, tasks>>

\* faulty variant: the focus effect subscribes but leaves displayMap alone
Focus_KeepsDisplayMap ==
  /\ mounted /\ ~focused
  /\ focused' = TRUE
  /\ displayMap' = displayMap
  /\ blurListeners' = Append(blurListeners, mapViewController)
  /\ step' = Step("focus", "entry", "-", <<>>)
  /\ UNCHANGED <<screen, mounted, arePermissionsApproved, overlayType,
                 mapViewController, navigationViewController,
                 navigationInitialized, margin, registered, tasks>>

\* the focus effect: setDisplayMap(true); navigation.addListener('blur', ...)
Focus ==
  /\ mounted /\ ~focused
  /\ focused' = TRUE
  /\ displayMap' = TRUE
  /\ blurListeners' = Append(blurListeners, mapViewController)
  /\ step' = Step("focus", "entry", "-", <<>>)
  /\ UNCHANGED <<screen, mounted, arePermissionsApproved, overlayType,
                 mapViewController, navigationViewController,
                 navigationInitialized, margin, registered, tasks>>

\* what the subscribed 'blur' listeners do, each to its first await
RECURSIVE BlurRun(_)
BlurRun(ls) ==
  IF ls = <<>> THEN Ran(<<>>, <<>>)
  ELSE LET r == cleanUpNavigation(Head(ls) # NULL)
           rest == BlurRun(Tail(ls))
       IN Ran(<<Enter("blur")>> \o r.out \o rest.out, <<r.t>> \o rest.t)

\* faulty variant: the blur listener also drops the map controller handle
Blur_DropsHandle ==
  /\ mounted /\ focused
  /\ CleanUpsOf(tasks) < MaxCleanUps
  /\ LET r == BlurRun(blurListeners) IN
       /\ tasks' = SpawnAll(tasks, r.t)
       /\ displayMap' = IF r.out = <<>> THEN displayMap ELSE FALSE
       /\ step' = Step("blur", "entry", "-", r.out)
  /\ focused' = FALSE
  /\ blurListeners' = Unsubscribe(blurListeners)
  /\ mapViewController' = NULL
  /\ UNCHANGED <<screen, mounted, arePermissionsApproved, overlayType,
                 navigationViewController, navigationInitialized, margin,
                 registered>>

\* the navigator emits 'blur': every subscribed listener runs
\* (setDisplayMap(false); await cleanUpNavigation()) and the focus effect's
\* cleanup unsubscribes the listener of its latest run
Blur ==
  /\ mounted /\ focused
  /\ CleanUpsOf(tasks) < MaxCleanUps
  /\ LET r == BlurRun(blurListeners) IN
       /\ tasks' = SpawnAll(tasks, r.t)
       /\ displayMap' = IF r.out = <<>> THEN displayMap ELSE FALSE
       /\ step' = Step("blur", "entry", "-", r.out)
  /\ focused' = FALSE
  /\ blurListeners' = Unsubscribe(blurListeners)
  /\ UNCHANGED <<screen, mounted, arePermissionsApproved, overlayType,
                 mapViewController, navigationViewController,
                 navigationInitialized, margin, registered>>

\* the component unmounts: the cleanup of each effect runs
Unmount ==
  /\ mounted
  /\ mounted' = FALSE
  /\ focused' = FALSE
  /\ registered' = removeListeners(registered,
       navigationCallbacks(screen, mapViewController, navigationViewController))
  /\ blurListeners' = IF focused THEN Unsubscribe(blurListeners) ELSE blurListeners
  /\ step' = Step("unmount", "entry", "-", <<>>)
  /\ UNCHANGED <<screen, arePermissionsApproved, overlayType, mapViewController,
                 navigationViewController, navigationInitialized, displayMap,
                 margin, tasks>>

\* onMapViewControllerCreated={setMapViewController}
onMapViewControllerCreated(h) ==
  /\ Rendered
  /\ Controllers(h, navigationViewController)
  /\ step' = Step("onMapViewControllerCreated", "entry", "-", <<>>)
  /\ UNCHANGED <<screen, mounted, focused, arePermissionsApproved, overlayType,
                 navigationInitialized, displayMap, margin, tasks>>

\* onNavigationViewControllerCreated={setNavigationViewController}
onNavigationViewControllerCreated(h) ==
  /\ Rendered
  /\ Controllers(mapViewController, h)
  /\ step' = Step("onNavigationViewControllerCreated", "entry", "-", <<>>)
  /\ UNCHANGED <<screen, mounted, focused, arePermissionsApproved, overlayType,
                 navigationInitialized, displayMap, margin, tasks>>

(* ------------------------------ controls ------------------------------- *)

UiOnly(op) ==
  /\ step' = Step(op, "entry", "-", <<>>)
  /\ SameControllers
  /\ UNCHANGED <<screen, mounted, focused, arePermissionsApproved,
                 navigationInitialized, displayMap, tasks>>

\* the Navigation button
onShowNavControlsClick ==
  /\ NavigationButtonEnabled
  /\ overlayType' = "NavControls"
  /\ UiOnly("onShowNavControlsClick")
  /\ UNCHANGED margin

\* faulty variant: the Maps button only opens the overlay when none is open
onShowMapsControlsClick_KeepsOpenOverlay ==
  /\ Rendered
  /\ overlayType' = IF overlayType = "None" THEN "MapControls" ELSE overlayType
  /\ UiOnly("onShowMapsControlsClick")
  /\ UNCHANGED margin

\* the Maps button
onShowMapsControlsClick ==
  /\ Rendered
  /\ overlayType' = "MapControls"
  /\ UiOnly("onShowMapsControlsClick")
  /\ UNCHANGED margin

\* closeOverlay, called by the overlay that is showing
closeOverlay ==
  /\ NavControlsVisible \/ MapControlsVisible
  /\ overlayType' = "None"
  /\ UiOnly("closeOverlay")
  /\ UNCHANGED margin

\* faulty variant: setMargin(marginAmount), whatever the margin is
onValueChange_AlwaysSets ==
  /\ Rendered
  /\ margin' = marginAmount
  /\ UiOnly("onValueChange")
  /\ UNCHANGED overlayType

\* the margin switch: setMargin(margin ? null : marginAmount)
onValueChange ==
  /\ Rendered
  /\ margin' = IF Truthy(margin) THEN NULL ELSE marginAmount
  /\ UiOnly("onValueChange")
  /\ UNCHANGED overlayType

(* ------------------- navigation callbacks (the table) ------------------ *)

\* what a handler that only touches tasks and navigationInitialized leaves
Handler ==
  /\ SameControllers
  /\ UNCHANGED <<screen, mounted, focused, arePermissionsApproved, overlayType,
                 displayMap, margin>>

\* faulty variant: the switch has no case for LOCATION_UNKNOWN
RouteStatusText_NoLocationUnknown(routeStatus) ==
  CASE routeStatus = "OK" -> "Route created"
    [] routeStatus = "ROUTE_CANCELED" -> "Error: Route Cancelled"
    [] routeStatus = "NO_ROUTE_FOUND" -> "Error: No Route Found"
    [] routeStatus = "NETWORK_ERROR" -> "Error: Network Error"
    [] routeStatus = "LOCATION_DISABLED" -> "Error: Location Disabled"
    [] OTHER -> "Error: Starting Guidance Error"

\* the notification onRouteStatusResult's switch selects
RouteStatusText(routeStatus) ==
  CASE routeStatus = "OK" -> "Route created"
    [] routeStatus = "ROUTE_CANCELED" -> "Error: Route Cancelled"
    [] routeStatus = "NO_ROUTE_FOUND" -> "Error: No Route Found"
    [] routeStatus = "NETWORK_ERROR" -> "Error: Network Error"
    [] routeStatus = "LOCATION_DISABLED" -> "Error: Location Disabled"
    [] routeStatus = "LOCATION_UNKNOWN" -> "Error: Location Unknown"
    [] OTHER -> "Error: Starting Guidance Error"

\* onRouteStatusOk: the example screen also moves the camera
onRouteStatusOk(scr, map) ==
  IF scr = Example /\ map
    THEN Ran(<<showSnackbar("Route created")>> \o moveCameraToStartingSpot(map),
             Task("onRouteStatusOk", "moveCamera", 0, FALSE, FALSE, FALSE))
    ELSE Ran(<<showSnackbar("Route created")>>, NoTask)

\* onRouteStatusResult(routeStatus), to its first await
onRouteStatusResultRun(scr, routeStatus, map) ==
  IF routeStatus = "OK"
    THEN onRouteStatusOk(scr, map)
    ELSE Ran(<<showSnackbar(RouteStatusText(routeStatus))>>, NoTask)

onRouteStatusResult(routeStatus) ==
  \E table \in registered :
    LET r == onRouteStatusResultRun(screen, routeStatus, table.map # NULL) IN
      /\ HandlersOf(tasks) < MaxTasks
      /\ tasks' = Spawn(tasks, r.t)
      /\ step' = Step("onRouteStatusResult", routeStatus, "-", r.out)
      /\ navigationInitialized' = navigationInitialized
      /\ Handler

\* onNavigationReady, from its entry to its first await
onNavigationReadyRun(scr, map, nav) ==
  ReadyRun(scr, "camera", 0, map, nav, FALSE, <<Enter("setNavigationInitialized")>>)

onNavigationReady ==
  \E table \in registered :
    LET r == onNavigationReadyRun(screen, table.map # NULL, table.nav # NULL) IN
      /\ HandlersOf(tasks) < MaxTasks
      /\ navigationInitialized' = SetState(navigationInitialized, TRUE)
      /\ tasks' = Spawn(tasks, r.t)
      /\ step' = Step("onNavigationReady", "entry", "-", r.out)
      /\ Handler

\* onNavigationReady resumes: the SDK promise it awaits settles
onNavigationReadySettled(t, res) ==
  /\ t.fn = "onNavigationReady" /\ t.pc # "done"
  /\ LET r == onNavigationReadyResume(screen, t, res) IN
       /\ tasks' = Settle(tasks, t, r.t)
       /\ step' = Step("onNavigationReady", t.pc, res, r.out)
  /\ navigationInitialized' = navigationInitialized
  /\ Handler

\* the promise of part_000's un-awaited setDestinations settles: nothing
\* in the screen observes it
setDestinationsSettled(t, res) ==
  /\ t.fn = "onNavigationReady" /\ t.flt
  /\ tasks' = Settle(tasks, t, IF t.pc = "done" THEN NoTask
                               ELSE [t EXCEPT !.flt = FALSE])
  /\ step' = Step("onNavigationReady", "setDestinations", res, <<>>)
  /\ navigationInitialized' = navigationInitialized
  /\ Handler

\* onNavigationInitError(errorCode)
onNavigationInitErrorRun(errorCode) ==
  <<[k |-> "snack", f |-> "Failed to initialize navigation errorCode: ",
     a |-> errorCode]>>

onNavigationInitError(errorCode) ==
  /\ registered # {}
  /\ step' = Step("onNavigationInitError", "entry", "-",
                  onNavigationInitErrorRun(errorCode))
  /\ UNCHANGED <<navigationInitialized, tasks>>
  /\ Handler

\* faulty variant: guidance is started before continuing to the next
\* destination
onArrivalRun_StartsBeforeContinuing(isFinalDestination) ==
  (IF isFinalDestination
     THEN <<Sdk("stopGuidance", 0)>>
     ELSE <<Sdk("startGuidance", 0), Sdk("continueToNextDestination", 0)>>)
  \o <<showSnackbar("Arrived")>>

\* onArrival(event)
onArrivalRun(isFinalDestination) ==
  (IF isFinalDestination
     THEN <<Sdk("stopGuidance", 0)>>
     ELSE <<Sdk("continueToNextDestination", 0), Sdk("startGuidance", 0)>>)
  \o <<showSnackbar("Arrived")>>

onArrival(isFinalDestination) ==
  /\ registered # {}
  /\ step' = Step("onArrival",
                  IF isFinalDestination THEN "isFinalDestination"
                                        ELSE "notFinalDestination",
                  "-", onArrivalRun(isFinalDestination))
  /\ UNCHANGED <<navigationInitialized, tasks>>
  /\ Handler

\* onRouteChanged, onTrafficUpdated, onStartGuidance: a notification each
NoticeText(op) ==
  CASE op = "onRouteChanged" -> "Route Changed"
    [] op = "onTrafficUpdated" -> "Traffic Updated"
    [] OTHER -> "Start Guidance"

Notice(op) ==
  /\ registered # {}
  /\ step' = Step(op, "entry", "-", <<showSnackbar(NoticeText(op))>>)
  /\ UNCHANGED <<navigationInitialized, tasks>>
  /\ Handler

onRouteChanged == Notice("onRouteChanged")
onTrafficUpdated == Notice("onTrafficUpdated")
onStartGuidance == Notice("onStartGuidance")

(* ----------------------- view callbacks, controls ---------------------- *)

\* onMapReady, to `await navigationController.init()`
onMapReadyRun(map) ==
  Ran(<<Sdk("init", 0)>>, Task("onMapReady", "init", 0, map, FALSE, FALSE))

onMapReady ==
  /\ Rendered
  /\ HandlersOf(tasks) < MaxTasks
  /\ LET r == onMapReadyRun(mapViewController # NULL) IN
       /\ tasks' = Spawn(tasks, r.t)
       /\ step' = Step("onMapReady", "entry", "-", r.out)
  /\ navigationInitialized' = navigationInitialized
  /\ Handler

\* faulty variant: no try/catch around init(), a rejection ends the handler
onMapReadyResume_NoCatch(t, res) ==
  IF res = "ok"
    THEN Ran(IF t.map THEN <<Sdk("setMyLocationEnabled", 0)>> ELSE <<>>, NoTask)
    ELSE Ran(<<>>, NoTask)

\* onMapReady resumed: init() settled
onMapReadyResume(t, res) ==
  IF res = "ok"
    THEN Ran(IF t.map THEN <<Sdk("setMyLocationEnabled", 0)>> ELSE <<>>, NoTask)
    ELSE Ran(<<showSnackbar("Error initializing navigator")>>, NoTask)

onMapReadySettled(t, res) ==
  /\ t.fn = "onMapReady"
  /\ LET r == onMapReadyResume(t, res) IN
       /\ tasks' = Settle(tasks, t, r.t)
       /\ step' = Step("onMapReady", t.pc, res, r.out)
  /\ navigationInitialized' = navigationInitialized
  /\ Handler

\* onRecenterButtonClick: moves the camera in the example screen
onRecenterButtonClickRun(scr, map) ==
  IF scr = Example /\ map
    THEN Ran(moveCameraToStartingSpot(map),
             Task("onRecenterButtonClick", "moveCamera", 0, FALSE, FALSE, FALSE))
    ELSE Ran(<<>>, NoTask)

onRecenterButtonClick ==
  /\ Rendered
  /\ HandlersOf(tasks) < MaxTasks
  /\ LET r == onRecenterButtonClickRun(screen, mapViewController # NULL) IN
       /\ tasks' = Spawn(tasks, r.t)
       /\ step' = Step("onRecenterButtonClick", "entry", "-", r.out)
  /\ navigationInitialized' = navigationInitialized
  /\ Handler

\* moveCameraToStartingSpot resumed in onRouteStatusOk / onRecenterButtonClick
moveCameraResume(t, res) ==
  Ran(IF res = "ok" THEN <<>> ELSE <<showSnackbar("Error moving camera")>>, NoTask)

moveCameraSettled(t, res) ==
  /\ t.fn \in {"onRouteStatusOk", "onRecenterButtonClick"}
  /\ LET r == moveCameraResume(t, res) IN
       /\ tasks' = Settle(tasks, t, r.t)
       /\ step' = Step(t.fn, t.pc, res, r.out)
  /\ navigationInitialized' = navigationInitialized
  /\ Handler

\* cleanUpNavigation resumes: clearDestinations() or cleanup() settled
cleanUpNavigationSettled(t, res) ==
  /\ t.fn = "cleanUpNavigation"
  /\ LET r == cleanUpNavigationResume(t, res) IN
       /\ tasks' = Settle(tasks, t, r.t)
       /\ step' = Step("cleanUpNavigation", t.pc, res, r.out)
  /\ navigationInitialized' = navigationInitialized
  /\ Handler

\* onNavigationDispose (NavigationControls calls it), to its await
onNavigationDisposeRun(nav) ==
  IF nav
    THEN Ran(<<Sdk("setNavigationUIEnabled", 0)>>,
             Task("onNavigationDispose", "setNavigationUIEnabled", 0, FALSE, FALSE, FALSE))
    ELSE Ran(<<>>, NoTask)

onNavigationDispose ==
  /\ NavControlsVisible
  /\ HandlersOf(tasks) < MaxTasks
  /\ LET r == onNavigationDisposeRun(navigationViewController # NULL) IN
       /\ tasks' = Spawn(tasks, r.t)
       /\ step' = Step("onNavigationDispose", "entry", "-", r.out)
       /\ navigationInitialized' =
            IF r.t = NoTask THEN SetState(navigationInitialized, FALSE)
            ELSE navigationInitialized
  /\ Handler

\* onNavigationDispose resumed: setNavigationInitialized(false)
onNavigationDisposeResume(init, res) == IF res = "ok" THEN FALSE ELSE init

onNavigationDisposeSettled(t, res) ==
  /\ t.fn = "onNavigationDispose"
  /\ tasks' = Settle(tasks, t, NoTask)
  /\ step' = Step("onNavigationDispose", t.pc, res, <<>>)
  /\ navigationInitialized' =
       SetState(navigationInitialized,
                onNavigationDisposeResume(navigationInitialized, res))
  /\ Handler

(* --------------------------- specification ----------------------------- *)

Next ==
  \/ PermissionsApproved
  \/ Focus
  \/ Blur
  \/ Unmount
  \/ \E h \in Handles : onMapViewControllerCreated(h)
  \/ \E h \in Handles : onNavigationViewControllerCreated(h)
  \/ onShowNavControlsClick
  \/ onShowMapsControlsClick
  \/ closeOverlay
  \/ onValueChange
  \/ \E routeStatus \in RouteStatus : onRouteStatusResult(routeStatus)
  \/ onNavigationReady
  \/ \E t \in Suspended(tasks), res \in Results : onNavigationReadySettled(t, res)
  \/ \E t \in Suspended(tasks), res \in Results : setDestinationsSettled(t, res)
  \/ \E errorCode \in 1..MaxErrorCode : onNavigationInitError(errorCode)
  \/ \E isFinalDestination \in BOOLEAN : onArrival(isFinalDestination)
  \/ onRouteChanged
  \/ onTrafficUpdated
  \/ onStartGuidance
  \/ onMapReady
  \/ \E t \in Suspended(tasks), res \in Results : onMapReadySettled(t, res)
  \/ onRecenterButtonClick
  \/ \E t \in Suspended(tasks), res \in Results : moveCameraSettled(t, res)
  \/ \E t \in Suspended(tasks), res \in Results : cleanUpNavigationSettled(t, res)
  \/ onNavigationDispose
  \/ \E t \in Suspended(tasks), res \in Results : onNavigationDisposeSettled(t, res)

Spec == Init /\ [][Next]_vars

(* Restrictions of the screen to the events that read or write what a     *)
(* property is about; the other events do not occur.                      *)

\* mount, permissions, focus and blur with its cleanup, the native view's
\* controllers
Lifecycle ==
  \/ PermissionsApproved
  \/ Focus
  \/ Blur
  \/ \E t \in Suspended(tasks), res \in Results : cleanUpNavigationSettled(t, res)
  \/ \E h \in Handles : onMapViewControllerCreated(h)
  \/ \E h \in Handles : onNavigationViewControllerCreated(h)

NextLifecycle ==
  \/ Lifecycle
  \/ Unmount

SpecLifecycle == Init /\ [][NextLifecycle]_vars

\* the overlays: the buttons, and what sets navigationInitialized
NextOverlay ==
  \/ Lifecycle
  \/ onShowNavControlsClick
  \/ onShowMapsControlsClick
  \/ closeOverlay
  \/ onNavigationReady
  \/ \E t \in Suspended(tasks), res \in Results : onNavigationReadySettled(t, res)
  \/ \E t \in Suspended(tasks), res \in Results : setDestinationsSettled(t, res)
  \/ onNavigationDispose
  \/ \E t \in Suspended(tasks), res \in Results : onNavigationDisposeSettled(t, res)

SpecOverlay == Init /\ [][NextOverlay]_vars

\* the margin switch
NextMargin ==
  \/ Lifecycle
  \/ Unmount
  \/ onValueChange

SpecMargin == Init /\ [][NextMargin]_vars

\* onNavigationReady and the blur cleanup
NextReady ==
  \/ Lifecycle
  \/ onNavigationReady
  \/ \E t \in Suspended(tasks), res \in Results : onNavigationReadySettled(t, res)
  \/ \E t \in Suspended(tasks), res \in Results : setDestinationsSettled(t, res)

SpecReady == Init /\ [][NextReady]_vars

\* a blur while onNavigationReady is suspended: onNavigationReady events
\* arrive only while no blur cleanup is under way
NextBlurRace ==
  \/ Lifecycle
  \/ CleanUpsOf(tasks) = 0 /\ onNavigationReady
  \/ \E t \in Suspended(tasks), res \in Results : onNavigationReadySettled(t, res)
  \/ \E t \in Suspended(tasks), res \in Results : setDestinationsSettled(t, res)

SpecBlurRace == Init /\ [][NextBlurRace]_vars

\* the other SDK events and view callbacks
NextEvents ==
  \/ PermissionsApproved
  \/ Focus
  \/ \E h \in Handles : onMapViewControllerCreated(h)
  \/ \E h \in Handles : onNavigationViewControllerCreated(h)
  \/ \E routeStatus \in RouteStatus : onRouteStatusResult(routeStatus)
  \/ \E errorCode \in 1..MaxErrorCode : onNavigationInitError(errorCode)
  \/ \E isFinalDestination \in BOOLEAN : onArrival(isFinalDestination)
  \/ onRouteChanged
  \/ onTrafficUpdated
  \/ onStartGuidance
  \/ onMapReady
  \/ \E t \in Suspended(tasks), res \in Results : onMapReadySettled(t, res)
  \/ onRecenterButtonClick
  \/ \E t \in Suspended(tasks), res \in Results : moveCameraSettled(t, res)

SpecEvents == Init /\ [][NextEvents]_vars

(* ----------------------------- properties ------------------------------ *)

\* C1: at most one of the two overlays is visible; after the Navigation
\* button the overlay state is NavControls and the map-controls overlay is
\* not visible, after the Maps button it is MapControls and the
\* navigation-controls overlay is not visible, after closeOverlay neither
\* is visible (SpecOverlay: interleaved with the controllers' creation,
\* onNavigationReady, onNavigationDispose, focus and blur).
C1_OverlaysExclusive ==
  /\ ~(NavControlsVisible /\ MapControlsVisible)
  /\ step.op = "onShowNavControlsClick" =>
       overlayType = "NavControls" /\ ~MapControlsVisible
  /\ step.op = "onShowMapsControlsClick" =>
       overlayType = "MapControls" /\ ~NavControlsVisible
  /\ step.op = "closeOverlay" => ~NavControlsVisible /\ ~MapControlsVisible

\* the Maps button was pressed while the navigation-controls overlay was
\* rendered: the map-controls overlay shows
C1_Witness ==
  /\ step.op = "onShowMapsControlsClick"
  /\ MapControlsVisible
  /\ NavControlsRendered

\* C2: on every blur, displayMap becomes false and cleanUpNavigation is
\* entered exactly once, also after the focus effect was re-run because the
\* map view controller handle was set, and after blur/focus/blur.
C2_BlurCleansUpOnce ==
  step.op = "blur" =>
    /\ displayMap = FALSE
    /\ Count(step.out, Enter("blur")) = 1
    /\ Count(step.out, Enter("cleanUpNavigation")) = 1

\* a blur whose listener closes over the handle set after the first focus
\* (the effect was re-run), while the cleanup of an earlier blur has run
C2_Witness ==
  /\ step.op = "blur"
  /\ mapViewController # NULL
  /\ Has(step.out, Sdk("clearMapView", 0))

\* C3: both controller handles start as null, are non-null after their
\* created callback, and once non-null never become null again.
C3_HandlesNeverRevert ==
  /\ mapViewController = NULL /\ navigationViewController = NULL
  /\ [][/\ mapViewController # NULL => mapViewController' # NULL
        /\ navigationViewController # NULL => navigationViewController' # NULL
        /\ step'.op = "onMapViewControllerCreated" => mapViewController' # NULL
        /\ step'.op = "onNavigationViewControllerCreated" =>
             navigationViewController' # NULL]_vars

\* both handles are set and a blur cleanup has then run to its end
C3_Witness ==
  /\ mapViewController # NULL /\ navigationViewController # NULL
  /\ step.op = "cleanUpNavigation" /\ step.at = "cleanup"

\* C4: the margin is null or marginAmount; it starts as null; each toggle
\* of the switch flips it to the other value (so two toggles restore it);
\* nothing else changes it; the switch is on exactly when the margin is
\* marginAmount.
C4_MarginToggles ==
  /\ margin = NULL
  /\ [][/\ margin' \in {NULL, marginAmount}
        /\ SwitchValue' <=> margin' = marginAmount
        /\ step'.op = "onValueChange" =>
             margin' = IF margin = marginAmount THEN NULL ELSE marginAmount
        /\ step'.op # "onValueChange" => margin' = margin]_vars

\* the switch was toggled and the margin is back to null
C4_Witness == step.op = "onValueChange" /\ margin = NULL

\* C5: a rejection of moveCamera inside moveCameraToStartingSpot is caught
\* and shown as a notification; onNavigationReady goes on to set the
\* destinations, and the camera move is not retried.
C5_MoveCameraFailureCaught ==
  (step.op = "onNavigationReady" /\ step.at = "moveCamera" /\ step.res = "rejected") =>
    /\ Has(step.out, showSnackbar("Error moving camera"))
    /\ Has(step.out, Sdk("setDestinations", wayPoints(screen)))
    /\ ~Has(step.out, Sdk("moveCamera", 0))

\* C6: a rejection of setDestinations during onNavigationReady is shown as
\* the notification 'Error setting destinations'; setDestinations is not
\* called again, the handler goes on to the waypoint markers (when its
\* closure holds a map view controller) and navigationInitialized is left
\* as it is.
C6_SetDestinationsFailureCaught ==
  [][(step'.op = "onNavigationReady" /\ step'.at = "setDestinations"
        /\ step'.res = "rejected") =>
       /\ Snacks(step'.out) = <<showSnackbar("Error setting destinations")>>
       /\ ~Has(step'.out, Sdk("setDestinations", wayPoints(screen)))
       /\ navigationInitialized' = navigationInitialized
       /\ \/ Has(step'.out, Sdk("addMarker", 1))
          \/ \E t \in Suspended(tasks) : t.fn = "onNavigationReady" /\ ~t.map]_vars

\* C7: an SDK initialization failure is only shown as a notification: when
\* init() rejects in onMapReady the handler shows 'Error initializing
\* navigator', calls neither setMyLocationEnabled nor init again; when
\* onNavigationInitError fires the notification carries the error code; in
\* both cases navigationInitialized, the overlay state, displayMap and the
\* controller handles are unchanged.
C7_InitFailureOnlyNotifies ==
  [][/\ (step'.op = "onMapReady" /\ step'.at = "init" /\ step'.res = "rejected") =>
          /\ step'.out = <<showSnackbar("Error initializing navigator")>>
          /\ UNCHANGED <<navigationInitialized, overlayType, displayMap,
                         mapViewController, navigationViewController>>
     /\ step'.op = "onNavigationInitError" =>
          /\ \E errorCode \in 1..MaxErrorCode :
               step'.out = <<[k |-> "snack",
                              f |-> "Failed to initialize navigation errorCode: ",
                              a |-> errorCode]>>
          /\ UNCHANGED <<navigationInitialized, overlayType, displayMap,
                         mapViewController, navigationViewController, tasks>>]_vars

\* init() rejected in an onMapReady that would have enabled the location
C7_Witness ==
  /\ step.op = "onMapReady" /\ step.at = "init" /\ step.res = "rejected"
  /\ mapViewController # NULL

C9_OneTableRegistered ==
  /\ Cardinality(registered) <= 1
  /\ mounted =>
       registered = {navigationCallbacks(screen, mapViewController,
                                         navigationViewController)}
  /\ ~mounted => registered = {}

\* the table was rebuilt (the map view controller was set) and the screen
\* then unmounted
C9_Witness == ~mounted /\ mapViewController # NULL /\ registered = {}

\* C10: blur cleanup runs in a fixed order: clearMapView first, exactly when
\* the map controller handle is non-null, then clearDestinations; cleanup
\* is called only when clearDestinations has resolved, and not when it
\* rejected.
C10_CleanUpOrder ==
  /\ step.op = "blur" =>
       step.out = <<Enter("blur"), Enter("cleanUpNavigation")>>
                    \o (IF mapViewController # NULL
                          THEN <<Sdk("clearMapView", 0)>> ELSE <<>>)
                    \o <<Sdk("clearDestinations", 0)>>
  /\ Has(step.out, Sdk("cleanup", 0)) =>
       /\ step.op = "cleanUpNavigation"
       /\ step.at = "clearDestinations" /\ step.res = "ok"
       /\ step.out = <<Sdk("cleanup", 0)>>
  /\ (step.op = "cleanUpNavigation" /\ step.res = "rejected") => step.out = <<>>
  /\ Has(step.out, Sdk("clearDestinations", 0)) => step.op = "blur"

\* clearDestinations resolved and cleanup was called, of a blur that
\* cleared the map view
C10_Witness ==
  /\ step.op = "cleanUpNavigation" /\ step.at = "clearDestinations"
  /\ step.res = "ok" /\ step.out = <<Sdk("cleanup", 0)>>
  /\ mapViewController # NULL

\* C11: displayMap is false before the first focus, true after every focus
\* event and false after every blur event, and nothing else changes it;
\* the views and the controls are rendered exactly where
\* arePermissionsApproved and displayMap both hold, so the created
\* callbacks of the view and the margin switch only act in such a state.
C11_DisplayMapFollowsFocus ==
  /\ ~displayMap
  /\ [][/\ step'.op = "focus" => displayMap'
        /\ step'.op = "blur" => ~displayMap'
        /\ step'.op \notin {"focus", "blur"} => displayMap' = displayMap
        /\ mounted' => (Rendered' <=> arePermissionsApproved' /\ displayMap')
        /\ step'.op \in {"onMapViewControllerCreated",
                         "onNavigationViewControllerCreated", "onValueChange"}
             => arePermissionsApproved /\ displayMap]_vars

\* a blur after the views were rendered and the map view created its
\* controller: permissions are approved, displayMap is false, nothing shows
C11_Witness ==
  /\ step.op = "blur"
  /\ arePermissionsApproved /\ ~displayMap /\ ~Rendered
  /\ mapViewController # NULL
  /\ margin = marginAmount

\* C12: navigationInitialized is true (and the Navigation button enabled,
\* the navigation-controls overlay able to show) only if onNavigationReady
\* has fired and neither onNavigationDispose nor the blur cleanup that
\* tears down the navigation controller has completed since: it starts
\* false, only the entry of onNavigationReady makes it true, and it is
\* false when onNavigationDispose has completed and when the cleanup() of
\* the blur cleanup has resolved.
C12_NavigationInitializedCurrent ==
  /\ ~navigationInitialized
  /\ [][/\ navigationInitialized' /\ ~navigationInitialized
             => step'.op = "onNavigationReady" /\ step'.at = "entry"
        /\ /\ step'.op = "onNavigationDispose"
           /\ step'.res = "ok" \/ (step'.at = "entry" /\ step'.out = <<>>)
           => ~navigationInitialized'
        /\ step'.op = "cleanUpNavigation" /\ step'.at = "cleanup"
             /\ step'.res = "ok"
             => ~navigationInitialized'
        /\ NavigationButtonEnabled' \/ NavControlsVisible'
             => navigationInitialized']_vars

\* C13: on every arrival event exactly one of two branches runs and then
\* the notification 'Arrived' is shown: for the final destination
\* stopGuidance is called and neither continueToNextDestination nor
\* startGuidance; otherwise continueToNextDestination and then
\* startGuidance, in that order, and stopGuidance is not called.
C13_ArrivalBranches ==
  step.op = "onArrival" =>
    /\ step.at = "isFinalDestination" =>
         step.out = <<Sdk("stopGuidance", 0), showSnackbar("Arrived")>>
    /\ step.at # "isFinalDestination" =>
         step.out = <<Sdk("continueToNextDestination", 0),
                      Sdk("startGuidance", 0), showSnackbar("Arrived")>>
    /\ Count(step.out, showSnackbar("Arrived")) = 1
    /\ step.out[Len(step.out)] = showSnackbar("Arrived")
    /\ Has(step.out, Sdk("stopGuidance", 0))
         # Has(step.out, Sdk("continueToNextDestination", 0))

\* an arrival that is not the final destination, on the rendered screen
\* with both controllers set
C13_Witness ==
  /\ step.op = "onArrival" /\ step.at = "notFinalDestination"
  /\ Has(step.out, Sdk("startGuidance", 0))
  /\ Rendered
  /\ mapViewController # NULL /\ navigationViewController # NULL

\* C14: onNavigationReady performs its steps in a fixed order: it sets
\* navigationInitialized to true before any SDK call, then moves the camera
\* to the starting spot, then calls setDestinations once with one
\* destination per waypoint, and only after that adds one marker per
\* waypoint, one after the other in list order; when the map view
\* controller handle is null the camera move and every marker are skipped
\* and setDestinations is still called.
C14_ReadyOrder ==
  [][step'.op = "onNavigationReady" =>
      LET out == step'.out
          n == wayPoints(screen)
          camera == Sdk("moveCamera", 0)
          dest == Sdk("setDestinations", n)
          At(x) == CHOOSE k \in 1..Len(out) : out[k] = x
          Markers == {k \in 1..Len(out) : out[k].f = "addMarker"}
          Waiting(i) == \E t \in Suspended(tasks) :
                          t.fn = "onNavigationReady" /\ t.pc = "addMarker" /\ t.i = i
      IN
      /\ step'.at = "entry" =>
           /\ out[1] = Enter("setNavigationInitialized")
           /\ navigationInitialized'
           /\ mapViewController # NULL =>
                out = <<Enter("setNavigationInitialized"), camera>>
           /\ mapViewController = NULL =>
                ~Has(out, camera) /\ Markers = {} /\ Has(out, dest)
      /\ Has(out, camera) => step'.at = "entry"
      /\ \A k \in 1..Len(out) : out[k].f = "setDestinations" => out[k] = dest
      /\ Count(out, dest) <= 1
      /\ Has(out, dest) =>
           \/ step'.at = "entry" /\ mapViewController = NULL
           \/ step'.at = "moveCamera"
      /\ step'.at = "moveCamera" /\ step'.res = "ok" => Has(out, dest)
      /\ Has(out, dest) /\ ~SetDestinationsAwaited(screen)
           /\ step'.at = "moveCamera"
           => Has(out, Sdk("addMarker", 1))
      /\ step'.at = "setDestinations" /\ SetDestinationsAwaited(screen)
           /\ (\A t \in Suspended(tasks) :
                 t.fn = "onNavigationReady" /\ t.pc = "setDestinations" => t.map)
           => Has(out, Sdk("addMarker", 1))
      /\ \A k \in Markers :
           LET i == out[k].a IN
           /\ i \in 1..n
           /\ Count(out, out[k]) = 1
           /\ i = 1 => \/ step'.at = "setDestinations" /\ ~Has(out, dest)
                       \/ Has(out, dest) /\ At(dest) < k
           /\ i > 1 => step'.at = "addMarker" /\ step'.res = "ok" /\ Waiting(i - 1)
      /\ step'.at = "addMarker" /\ step'.res = "ok" /\ Markers = {}
           => Waiting(n)]_vars

\* the marker of the last waypoint of the example screen is added after
\* the marker before it resolved
C14_Witness ==
  /\ screen = Example
  /\ step.op = "onNavigationReady" /\ step.at = "addMarker" /\ step.res = "ok"
  /\ step.out = <<Sdk("addMarker", wayPoints(screen))>>

\* C15: a blur that arrives while onNavigationReady is suspended at one of
\* its awaits leaves no work behind: once the blur cleanup
\* (clearDestinations, then cleanup) has completed, the next thing the
\* screen does issues no setDestinations and no addMarker call unless it
\* is a new onNavigationReady event (SpecBlurRace: every onNavigationReady
\* still suspended when the cleanup completes began before the blur).
C15_NoWorkLeftBehind ==
  [][/\ step.op = "cleanUpNavigation" /\ step.at = "cleanup" /\ step.res = "ok"
     /\ ~(step'.op = "onNavigationReady" /\ step'.at = "entry")
     => \A k \in 1..Len(step'.out) :
          step'.out[k].f \notin {"setDestinations", "addMarker"}]_vars

====
